---- MODULE Spec2Model ----
(***************************************************************************)
(* State-machine model of autoBackup.py: the remote pull (perform_backup), *)
(* the mirror sync (synchronize_directories), the removable-media copy     *)
(* (copy_to_usb), the volume watcher threads (check_usb), safe_eject_usb   *)
(* and the control loop of main.                                           *)
(*                                                                         *)
(* File names are sequences of one-character strings, so that              *)
(* sanitize_filename and the whitespace split of an `ls` line are computed *)
(* character by character, as the code computes them.                      *)
(***************************************************************************)
EXTENDS Integers, Sequences, FiniteSets, TLC

None == "None"

(***************************************************************************)
(* Characters and names                                                    *)
(***************************************************************************)
\* characters for which str.isalnum() is true (it is Unicode-aware)
AlnumChars == {"a", "b", "c", "g", "l", "o", "t", "x", "0", "1", "2", "3", "4", "5", "6", "7", "8", "9", "é"}

\* the characters sanitize_filename keeps besides the alphanumeric ones
KeptChars == {" ", ".", "_", "-"}

Digits == {"0", "1", "2", "3", "4", "5", "6", "7", "8", "9"}

DigitVal(c) ==
    CASE c = "0" -> 0 [] c = "1" -> 1 [] c = "2" -> 2 [] c = "3" -> 3 [] c = "4" -> 4
      [] c = "5" -> 5 [] c = "6" -> 6 [] c = "7" -> 7 [] c = "8" -> 8 [] OTHER -> 9

DigitChar(n) ==
    CASE n = 0 -> "0" [] n = 1 -> "1" [] n = 2 -> "2" [] n = 3 -> "3" [] n = 4 -> "4"
      [] n = 5 -> "5" [] n = 6 -> "6" [] n = 7 -> "7" [] n = 8 -> "8" [] OTHER -> "9"

\* "".join(c if c.isalnum() or c in (' ', '.', '_', '-') else '_' for c in filename)
sanitize_filename(filename) ==
    [n \in DOMAIN filename |->
        IF filename[n] \in AlnumChars \/ filename[n] \in KeptChars
        THEN filename[n] ELSE "_"]

\* str.split(): the maximal runs of non-whitespace characters of a line
RECURSIVE SplitFrom(_, _, _)
SplitFrom(line, n, cur) ==
    IF n > Len(line)
    THEN IF cur = <<>> THEN <<>> ELSE <<cur>>
    ELSE IF line[n] = " "
         THEN IF cur = <<>> THEN SplitFrom(line, n + 1, <<>>)
              ELSE <<cur>> \o SplitFrom(line, n + 1, <<>>)
         ELSE SplitFrom(line, n + 1, Append(cur, line[n]))

split(line) == SplitFrom(line, 1, <<>>)

\* int(s) raises ValueError unless s is a run of digits
IsInt(tok) == tok # <<>> /\ \A n \in DOMAIN tok : tok[n] \in Digits

RECURSIVE IntOf(_)
IntOf(tok) ==
    IF tok = <<>> THEN 0
    ELSE 10 * IntOf(SubSeq(tok, 1, Len(tok) - 1)) + DigitVal(tok[Len(tok)])

\* os.path.join(primary_backup_path, "temp"): the staging directory's name
TempName == <<"t", "e", "m", "p">>

(***************************************************************************)
(* The remote side: `ls -lt --time-style=+%s <source_path>`                *)
(***************************************************************************)
\* one line of the listing of a remote file: mode, links, owner, group,
\* size, mtime and the name, separated by blanks
LsLine(entry) ==
    <<"-", " ", "1", " ", "x", " ", "x", " ", DigitChar(entry.size), " ",
      DigitChar(entry.mtime), " ">> \o entry.name

\* the first line of `ls -l` output: "total N"
TotalLine == <<"x", " ", "1">>

RECURSIVE LsLines(_)
LsLines(dir) ==
    IF dir = <<>> THEN <<>> ELSE <<LsLine(Head(dir))>> \o LsLines(Tail(dir))

LsOutput(dir) == <<TotalLine>> \o LsLines(dir)

Names(files) == {f.name : f \in files}


(***************************************************************************)
(* Configuration (load_all_configurations) and inputs                      *)
(***************************************************************************)
\* the SERVER_<index>_IP indexes a .env file may define
AllServers == {1, 2}

\* config['secondary_backup_paths'] of each server, in the order of the list
SecondaryPaths(s) == IF s = 1 THEN <<1, 2>> ELSE <<1>>

\* volume identifiers the drive enumeration can report
Volumes == {"E:"}

\* retries = 3 in connect_ssh
retries == 3

\* bound: requests put on usb_queue in one run of the model
MaxRequests == 2

\* remote source directories the pulls are checked against
DirCollide ==
    << [name |-> <<"a">>, size |-> 1, mtime |-> 3],
       [name |-> <<"b", "@">>, size |-> 2, mtime |-> 2],
       [name |-> <<"b", "#">>, size |-> 2, mtime |-> 1] >>

\* "a.txt" and "b log.txt"
DirBlank ==
    << [name |-> <<"a", ".", "t", "x", "t">>, size |-> 1, mtime |-> 2],
       [name |-> <<"b", " ", "l", "o", "g", ".", "t", "x", "t">>, size |-> 2, mtime |-> 1] >>

DirSmall == << [name |-> <<"c">>, size |-> 1, mtime |-> 1] >>

RemoteDirs == {DirCollide, DirBlank}

VARIABLES
    configs,          \* all_configs: the loaded server indexes, in order
    remote,           \* remote[s]: the remote source directory of server s
    primary,          \* primary[s]: files in the primary root
    staging,          \* staging[s]: the temp directory under the primary root
    secondary,        \* secondary[s][j]: files in the j-th secondary root
    created,          \* created[s]: create_backup_directories has run
    active_transfer,  \* the global flag
    lock_owner,       \* who holds active_transfer_lock
    pc,               \* position of the control (main) thread
    k,                \* main: index into configs of the startup loop
    srv,              \* perform_backup: config
    ret,              \* perform_backup: its caller (startup loop or scheduler)
    attempt,          \* connect_ssh: attempt
    conn_err,         \* connect_ssh: what the last failed attempt raised
    new_files,        \* perform_backup: new_files
    idx,              \* perform_backup: position in new_files (1-based)
    primary_files,    \* synchronize_directories: primary_files
    sec,              \* synchronize_directories: position in secondary_backup_paths
    files_to_copy,    \* synchronize_directories: files_to_copy still to do
    result,           \* outcome of the last perform_backup
    failed,           \* positions of new_files whose transfer raised (logged errors)
    skipped,          \* positions of new_files skipped by the existence check
    sync_error,       \* what raised inside synchronize_directories, if anything
    usb_queue,        \* usb_queue
    usb_prompted,     \* usb_prompted
    lecteur,          \* lecteur
    attached,         \* the removable volume the OS reports, or None
    watcher,          \* watcher[w]: the check_usb thread of the w-th config
    usb_req,          \* process_usb_queue: the request taken from the queue
    usb_dest,         \* files in the destination folder on the volume
    cu_todo,          \* copy_to_usb: names of os.listdir(backup_path) still to do
    cu_exc,           \* copy_to_usb: an exception is propagating through finally
    ej_pc,            \* position of a caller of safe_eject_usb
    puts              \* number of requests put on usb_queue so far

vars == <<configs, remote, primary, staging, secondary, created, active_transfer,
          lock_owner, pc, k, srv, ret, attempt, conn_err, new_files, idx, primary_files, sec,
          files_to_copy, result, failed, skipped, sync_error, usb_queue, usb_prompted,
          lecteur, attached, watcher, usb_req, usb_dest, cu_todo, cu_exc, ej_pc, puts>>

envVars == <<configs, remote>>
fsVars == <<primary, staging, secondary, created>>
lockVars == <<active_transfer, lock_owner>>
pullVars == <<srv, ret, attempt, conn_err, new_files, idx, primary_files, sec, files_to_copy,
              failed, skipped, sync_error>>
watchVars == <<usb_prompted, lecteur, attached, watcher>>
copyVars == <<usb_req, usb_dest, cu_todo, cu_exc>>
usbVars == <<usb_queue, puts, usb_prompted, lecteur, attached, watcher, usb_req,
             usb_dest, cu_todo, cu_exc, ej_pc>>

\* os.listdir(primary_backup_path): the files and, while it exists, "temp"
ListDirPrimary(s) ==
    Names(primary[s]) \cup (IF staging[s].exists THEN {TempName} ELSE {})

RemoteHas(s, filename) == \E n \in DOMAIN remote[s] : remote[s][n].name = filename


(***************************************************************************)
(* perform_backup                                                          *)
(***************************************************************************)
\* lines 165-172: the entries of the listing whose sanitized name is not in
\* local_files; ok is FALSE when int(parts[-2]) raises ValueError
RECURSIVE ParseNew(_, _)
ParseNew(lines, local_files) ==
    IF lines = <<>> THEN [ok |-> TRUE, files |-> <<>>]
    ELSE LET parts == split(Head(lines))
             rest == ParseNew(Tail(lines), local_files)
         IN  IF Len(parts) >= 6 /\ sanitize_filename(parts[Len(parts)]) \notin local_files
             THEN IF IsInt(parts[Len(parts) - 1])
                  THEN [ok |-> rest.ok,
                        files |-> <<[file |-> parts[Len(parts)],
                                     mtime |-> IntOf(parts[Len(parts) - 1])]>> \o rest.files]
                  ELSE [ok |-> FALSE, files |-> <<>>]
             ELSE rest

ResetPullLocals ==
    /\ srv' = 0
    /\ ret' = "none"
    /\ attempt' = 0
    /\ conn_err' = "none"
    /\ new_files' = <<>>
    /\ idx' = 0
    /\ primary_files' = {}
    /\ sec' = 0
    /\ files_to_copy' = {}
    /\ failed' = {}
    /\ skipped' = {}
    /\ sync_error' = "none"

\* perform_backup(config) is called by the startup loop or by a scheduled job
CallPull(s, from) ==
    /\ pc' = "pb_connect"
    /\ srv' = s
    /\ ret' = from
    /\ attempt' = 0
    /\ conn_err' = "none"
    /\ result' = "none"
    /\ UNCHANGED <<k, new_files, idx, primary_files, sec, files_to_copy,
                   failed, skipped, sync_error>>

\* perform_backup returns to its caller: the next config of the startup loop,
\* or schedule.run_pending
PullReturn(outcome) ==
    /\ result' = outcome
    /\ pc' = IF ret = "startup" THEN "startup" ELSE "run_pending"
    /\ k' = IF ret = "startup" THEN k + 1 ELSE k
    /\ ResetPullLocals

\* an exception leaves perform_backup: in the startup loop nothing catches it
\* and the process ends; under run_pending it leaves the control loop, whose
\* finally joins the watcher threads
PullRaiseAs(exception) ==
    /\ result' = exception
    /\ pc' = IF ret = "startup" THEN "exited" ELSE "joining"
    /\ k' = k
    /\ ResetPullLocals

\* an exception of the session: paramiko, the remote command, the filesystem
PullRaise == PullRaiseAs("raised")

\* a return out of the inner try that does not run the finally
GoFinally_Skip(outcome) == PullReturn(outcome)

\* control reaches the inner finally with the value perform_backup will return
GoFinally(outcome) ==
    /\ pc' = "pb_finally"
    /\ result' = outcome
    /\ UNCHANGED <<k, pullVars>>

\* connect_ssh with every failed attempt retried, an authentication failure too
Connect_RetryAuth ==
    /\ pc = "pb_connect"
    /\ \E outcome \in {"ok", "auth", "error"} :
          IF outcome = "ok"
          THEN /\ pc' = "pb_open"
               /\ UNCHANGED <<k, result, pullVars>>
          ELSE IF attempt < retries - 1
               THEN /\ attempt' = attempt + 1
                    /\ conn_err' = outcome
                    /\ UNCHANGED <<pc, k, result, srv, ret, new_files, idx, primary_files,
                                   sec, files_to_copy, failed, skipped, sync_error>>
               ELSE PullReturn("connect_failed")
    /\ UNCHANGED <<envVars, fsVars, lockVars, usbVars>>

\* connect_ssh: one attempt of the loop `for attempt in range(retries)`:
\* the session, or AuthenticationException and `return None` at once, or
\* another exception and a retry unless this was the last attempt;
\* perform_backup returns False when connect_ssh returned None
Connect ==
    /\ pc = "pb_connect"
    /\ \E outcome \in {"ok", "auth", "error"} :
          IF outcome = "ok"
          THEN /\ pc' = "pb_open"
               /\ UNCHANGED <<k, result, pullVars>>
          ELSE IF outcome = "error" /\ attempt < retries - 1
               THEN /\ attempt' = attempt + 1
                    /\ conn_err' = outcome
                    /\ UNCHANGED <<pc, k, result, srv, ret, new_files, idx, primary_files,
                                   sec, files_to_copy, failed, skipped, sync_error>>
               ELSE PullReturn(IF outcome = "auth" THEN "auth_failed" ELSE "connect_failed")
    /\ UNCHANGED <<envVars, fsVars, lockVars, usbVars>>

\* ssh.open_sftp() and create_backup_directories(config)
PullOpen ==
    /\ pc = "pb_open"
    /\ \/ /\ created' = [created EXCEPT ![srv] = TRUE]
          /\ pc' = "pb_list"
          /\ UNCHANGED <<k, result, pullVars>>
       \/ /\ PullRaise
          /\ UNCHANGED created
    /\ UNCHANGED <<envVars, primary, staging, secondary, lockVars, usbVars>>

\* the remote listing, os.listdir(primary_backup_path) and new_files
PullList ==
    /\ pc = "pb_list"
    /\ \/ LET r == ParseNew(LsOutput(remote[srv]), ListDirPrimary(srv))
          IN  IF ~r.ok THEN PullRaiseAs("value_error")
              ELSE IF r.files = <<>> THEN PullReturn("none_new")
              ELSE /\ new_files' = r.files
                   /\ pc' = "pb_mktemp"
                   /\ UNCHANGED <<k, result, srv, ret, attempt, conn_err, idx,
                                  primary_files, sec, files_to_copy, failed, skipped, sync_error>>
       \/ PullRaise
    /\ UNCHANGED <<envVars, fsVars, lockVars, usbVars>>

\* os.makedirs(temp_dir, exist_ok=True)
PullMkTemp ==
    /\ pc = "pb_mktemp"
    /\ \/ /\ staging' = [staging EXCEPT ![srv].exists = TRUE]
          /\ pc' = "pb_lock"
          /\ UNCHANGED <<k, result, pullVars>>
       \/ /\ PullRaise
          /\ UNCHANGED staging
    /\ UNCHANGED <<envVars, primary, secondary, created, lockVars, usbVars>>

\* with active_transfer_lock: active_transfer = True
PullLock ==
    /\ pc = "pb_lock"
    /\ lock_owner = "none"
    /\ active_transfer' = TRUE
    /\ pc' = "pb_file"
    /\ idx' = 1
    /\ UNCHANGED <<k, result, srv, ret, attempt, conn_err, new_files, primary_files, sec,
                   files_to_copy, failed, skipped, sync_error>>
    /\ UNCHANGED <<envVars, fsVars, lock_owner, usbVars>>

\* a per-file failure that ends the batch
FileError_Abort ==
    /\ failed' = failed \cup {idx}
    /\ skipped' = skipped
    /\ pc' = "pb_finally"
    /\ result' = "error"
    /\ UNCHANGED <<k, srv, ret, attempt, conn_err, new_files, idx, primary_files, sec,
                   files_to_copy, sync_error>>

\* the per-file except clause: log, notify, go on with the next file
FileError ==
    /\ failed' = failed \cup {idx}
    /\ skipped' = skipped
    /\ idx' = idx + 1
    /\ pc' = "pb_file"
    /\ UNCHANGED <<k, result, srv, ret, attempt, conn_err, new_files, primary_files, sec,
                   files_to_copy, sync_error>>

\* the existence check without its second half
AlreadyExists_StagingOnly(s, sanitized_file) ==
    sanitized_file \in Names(staging[s].files)

\* os.path.exists(temp_file_path) or os.path.exists(<primary>/sanitized_file)
AlreadyExists(s, sanitized_file) ==
    \/ sanitized_file \in Names(staging[s].files)
    \/ sanitized_file \in ListDirPrimary(s)

\* the download opened at its final path in the primary root
OpenTemp_Final(s, sanitized_file) ==
    /\ primary' = [primary EXCEPT ![s] =
                      @ \cup {[name |-> sanitized_file, complete |-> FALSE, mtime |-> 0]}]
    /\ staging' = [staging EXCEPT ![s].files =
                      @ \cup {[name |-> sanitized_file, complete |-> FALSE]}]

\* where open(temp_file_path, 'wb') creates the file being downloaded
OpenTemp(s, sanitized_file) ==
    /\ staging' = [staging EXCEPT ![s].files =
                      @ \cup {[name |-> sanitized_file, complete |-> FALSE]}]
    /\ UNCHANGED primary

\* head of the loop over new_files: the existence check, sftp.stat, open
FileBegin ==
    /\ pc = "pb_file"
    /\ IF idx > Len(new_files)
       THEN /\ pc' = "pb_cleanup"
            /\ UNCHANGED <<k, result, pullVars, primary, staging>>
       ELSE LET file == new_files[idx].file
                sanitized_file == sanitize_filename(file)
            IN  IF AlreadyExists(srv, sanitized_file)
                THEN /\ idx' = idx + 1
                     /\ skipped' = skipped \cup {idx}
                     /\ UNCHANGED <<pc, k, result, srv, ret, attempt, conn_err, new_files,
                                    primary_files, sec, files_to_copy, failed, sync_error,
                                    primary, staging>>
                ELSE \/ /\ RemoteHas(srv, file)
                        /\ staging[srv].exists
                        /\ OpenTemp(srv, sanitized_file)
                        /\ pc' = "pb_getfo"
                        /\ UNCHANGED <<k, result, pullVars>>
                     \/ /\ FileError
                        /\ UNCHANGED <<primary, staging>>
    /\ UNCHANGED <<envVars, secondary, created, lockVars, usbVars>>

\* the staged file once sftp.getfo has written all of it
Staged(s, sanitized_file) ==
    [staging EXCEPT ![s].files =
        (@ \ {[name |-> sanitized_file, complete |-> FALSE]})
            \cup {[name |-> sanitized_file, complete |-> TRUE]}]

\* sftp.getfo(remote_file_path, f, ...): all of the file, or an exception
\* that leaves what was written so far in the staging file
FileGetfo ==
    /\ pc = "pb_getfo"
    /\ \/ /\ staging' = Staged(srv, sanitize_filename(new_files[idx].file))
          /\ pc' = "pb_rename"
          /\ UNCHANGED <<k, result, pullVars>>
       \/ /\ FileError
          /\ UNCHANGED staging
    /\ UNCHANGED <<envVars, primary, secondary, created, lockVars, usbVars>>

\* os.rename(temp_file_path, final_file_path): the staged file, as it is,
\* becomes a file of the primary root; its mtime is that of the download (0)
FileRename ==
    /\ pc = "pb_rename"
    /\ \/ LET sanitized_file == sanitize_filename(new_files[idx].file)
              staged == CHOOSE f \in staging[srv].files : f.name = sanitized_file
          IN  /\ staging' = [staging EXCEPT ![srv].files = @ \ {staged}]
              /\ primary' = [primary EXCEPT ![srv] =
                                @ \cup {[name |-> sanitized_file,
                                         complete |-> staged.complete, mtime |-> 0]}]
              /\ pc' = "pb_utime"
              /\ UNCHANGED <<k, result, pullVars>>
       \/ /\ FileError
          /\ UNCHANGED <<primary, staging>>
    /\ UNCHANGED <<envVars, secondary, created, lockVars, usbVars>>

\* os.utime(final_file_path, (mtime, mtime))
FileUtime ==
    /\ pc = "pb_utime"
    /\ \/ LET sanitized_file == sanitize_filename(new_files[idx].file)
              f == CHOOSE g \in primary[srv] : g.name = sanitized_file
          IN  /\ primary' = [primary EXCEPT ![srv] =
                                (@ \ {f}) \cup {[f EXCEPT !.mtime = new_files[idx].mtime]}]
              /\ idx' = idx + 1
              /\ pc' = "pb_file"
              /\ UNCHANGED <<k, result, srv, ret, attempt, conn_err, new_files, primary_files, sec,
                             files_to_copy, failed, skipped, sync_error>>
       \/ /\ FileError
          /\ UNCHANGED primary
    /\ UNCHANGED <<envVars, staging, secondary, created, lockVars, usbVars>>

\* cleanup_temp_directory(temp_dir): the files and the directory are removed,
\* or an exception is logged and swallowed part of the way
PullCleanup ==
    /\ pc = "pb_cleanup"
    /\ \/ staging' = [staging EXCEPT ![srv] = [exists |-> FALSE, files |-> {}]]
       \/ \E left \in SUBSET staging[srv].files :
             staging' = [staging EXCEPT ![srv].files = left]
    /\ pc' = "pb_sync"
    /\ UNCHANGED <<k, result, pullVars>>
    /\ UNCHANGED <<envVars, primary, secondary, created, lockVars, usbVars>>


(***************************************************************************)
(* synchronize_directories, called by perform_backup inside its inner try  *)
(***************************************************************************)
\* primary_files = set(os.listdir(primary_backup_path))
PullSync ==
    /\ pc = "pb_sync"
    /\ \/ /\ primary_files' = ListDirPrimary(srv)
          /\ sec' = 1
          /\ pc' = "sy_dir"
          /\ UNCHANGED <<k, result, srv, ret, attempt, conn_err, new_files, idx, files_to_copy,
                         failed, skipped, sync_error>>
       \/ /\ sync_error' = "dir"
          /\ pc' = "pb_finally"
          /\ result' = "error"
          /\ UNCHANGED <<k, srv, ret, attempt, conn_err, new_files, idx, primary_files, sec,
                         files_to_copy, failed, skipped>>
    /\ UNCHANGED <<envVars, fsVars, lockVars, usbVars>>

\* a sync that looks only at the files this pull downloaded
FilesToCopy_NewOnly(s, j) ==
    {sanitize_filename(new_files[n].file) : n \in DOMAIN new_files}
        \ Names(secondary[s][j])

\* files_to_copy = primary_files - secondary_files
FilesToCopy(s, j) == primary_files \ Names(secondary[s][j])

\* head of the loop over secondary_backup_paths; after the last one
\* perform_backup logs "Backup complete" and returns True
SyncDir ==
    /\ pc = "sy_dir"
    /\ IF sec > Len(SecondaryPaths(srv))
       THEN GoFinally("success")
       ELSE \/ /\ files_to_copy' = FilesToCopy(srv, sec)
               /\ pc' = "sy_copy"
               /\ UNCHANGED <<k, result, srv, ret, attempt, conn_err, new_files, idx, primary_files,
                              sec, failed, skipped, sync_error>>
            \/ /\ sync_error' = "dir"
               /\ pc' = "pb_finally"
               /\ result' = "error"
               /\ UNCHANGED <<k, srv, ret, attempt, conn_err, new_files, idx, primary_files, sec,
                              files_to_copy, failed, skipped>>
    /\ UNCHANGED <<envVars, fsVars, lockVars, usbVars>>

\* the except clause of the copy loop: logging.error, then
\* send_email(subject, body) without its third argument `config`, which
\* raises TypeError out of synchronize_directories; perform_backup's
\* `except Exception` catches it and returns False
SyncCopyError ==
    /\ sync_error' = "copy"
    /\ pc' = "pb_finally"
    /\ result' = "error"
    /\ UNCHANGED <<k, srv, ret, attempt, conn_err, new_files, idx, primary_files, sec,
                   files_to_copy, failed, skipped>>

\* the source file of a copy out of the primary root
PrimaryFile(s, name) == CHOOSE f \in primary[s] : f.name = name

\* one file of files_to_copy: the chunked copy, or an exception before the
\* destination is created or after part of it was written
SyncCopy ==
    /\ pc = "sy_copy"
    /\ IF files_to_copy = {}
       THEN /\ sec' = sec + 1
            /\ pc' = "sy_dir"
            /\ UNCHANGED <<k, result, srv, ret, attempt, conn_err, new_files, idx, primary_files,
                           files_to_copy, failed, skipped, sync_error, secondary>>
       ELSE \E file \in files_to_copy :
               \/ /\ file \in Names(primary[srv])
                  /\ secondary' = [secondary EXCEPT ![srv][sec] =
                        @ \cup {[name |-> file, complete |-> PrimaryFile(srv, file).complete]}]
                  /\ files_to_copy' = files_to_copy \ {file}
                  /\ UNCHANGED <<pc, k, result, srv, ret, attempt, conn_err, new_files, idx,
                                 primary_files, sec, failed, skipped, sync_error>>
               \/ /\ file \in Names(primary[srv])
                  /\ secondary' = [secondary EXCEPT ![srv][sec] =
                        @ \cup {[name |-> file, complete |-> FALSE]}]
                  /\ SyncCopyError
               \/ /\ UNCHANGED secondary
                  /\ SyncCopyError
    /\ UNCHANGED <<envVars, primary, staging, created, lockVars, usbVars>>

\* the flag reset at the end of the try body instead of in a finally
PullFinally_NoReset ==
    /\ pc = "pb_finally"
    /\ lock_owner = "none"
    /\ active_transfer' = IF result = "success" THEN FALSE ELSE active_transfer
    /\ PullReturn(result)
    /\ UNCHANGED <<envVars, fsVars, lock_owner, usbVars>>

\* the inner finally: with active_transfer_lock: active_transfer = False;
\* then perform_backup returns
PullFinally ==
    /\ pc = "pb_finally"
    /\ lock_owner = "none"
    /\ active_transfer' = FALSE
    /\ PullReturn(result)
    /\ UNCHANGED <<envVars, fsVars, lock_owner, usbVars>>

PullOuter == {"pb_connect", "pb_open", "pb_list", "pb_mktemp"}

PullInner == {"pb_lock", "pb_file", "pb_getfo", "pb_rename", "pb_utime", "pb_cleanup",
              "pb_sync", "sy_dir", "sy_copy"}


(***************************************************************************)
(* main: the startup pulls, the watcher threads, the control loop          *)
(***************************************************************************)
ConfigIndexes == 1 .. Len(configs)

\* for config in configs: perform_backup(config); then one check_usb thread
\* per config is started and the backups are scheduled
Startup ==
    /\ pc = "startup"
    /\ IF k <= Len(configs)
       THEN /\ CallPull(configs[k], "startup")
            /\ UNCHANGED watcher
       ELSE /\ watcher' = [w \in AllServers |->
                              IF w \in ConfigIndexes
                              THEN [watcher[w] EXCEPT !.pc = "poll"] ELSE watcher[w]]
            /\ pc' = "run_pending"
            /\ UNCHANGED <<k, result, pullVars>>
    /\ UNCHANGED <<envVars, fsVars, lockVars, usb_queue, puts, usb_prompted, lecteur,
                   attached, copyVars, ej_pc>>

\* schedule.run_pending(): every job that is due calls perform_backup on the
\* control thread; with none (left) due, process_usb_queue comes next
RunPending ==
    /\ pc = "run_pending"
    /\ \/ \E n \in ConfigIndexes : CallPull(configs[n], "sched")
       \/ /\ pc' = "drain"
          /\ UNCHANGED <<k, result, pullVars>>
    /\ UNCHANGED <<envVars, fsVars, lockVars, usbVars>>

\* process_usb_queue with usb_queue.empty(), then time.sleep(1)
DrainEmpty ==
    /\ pc = "drain"
    /\ usb_queue = <<>>
    /\ pc' = "run_pending"
    /\ UNCHANGED <<k, result, pullVars, envVars, fsVars, lockVars, usbVars>>

\* KeyboardInterrupt while the control thread is in a pull or in the loop:
\* before the inner try of perform_backup it leaves perform_backup; inside it
\* the `except KeyboardInterrupt` clause returns False through the finally;
\* in the control loop main's except clause logs it and the finally joins
Interrupt ==
    /\ pc \in PullOuter \cup PullInner \cup {"run_pending", "drain"}
    /\ IF pc \in PullOuter THEN PullRaiseAs("keyboard_interrupt")
       ELSE IF pc \in PullInner THEN GoFinally("interrupted")
       ELSE /\ pc' = "joining"
            /\ UNCHANGED <<k, result, pullVars>>
    /\ UNCHANGED <<envVars, fsVars, lockVars, usbVars>>

\* finally: for usb_thread in usb_threads: usb_thread.join() - it returns
\* once every check_usb thread has ended; then main returns
Join ==
    /\ pc = "joining"
    /\ \A w \in ConfigIndexes : watcher[w].pc = "dead"
    /\ pc' = "exited"
    /\ UNCHANGED <<k, result, pullVars, envVars, fsVars, lockVars, usbVars>>

(***************************************************************************)
(* check_usb: one thread per config                                        *)
(***************************************************************************)
\* the user plugs in or removes a removable volume
Attach ==
    /\ attached = None
    /\ \E v \in Volumes : attached' = v
    /\ UNCHANGED <<envVars, fsVars, lockVars, pc, k, result, pullVars, usb_queue, puts,
                   usb_prompted, lecteur, watcher, copyVars, ej_pc>>

Detach ==
    /\ attached # None
    /\ attached' = None
    /\ UNCHANGED <<envVars, fsVars, lockVars, pc, k, result, pullVars, usb_queue, puts,
                   usb_prompted, lecteur, watcher, copyVars, ej_pc>>

Bump(n) == IF n < 2 THEN n + 1 ELSE n

\* one iteration of the loop up to the test of usb_prompted: the drive
\* enumeration, the comparison with previous_usb, lecteur = current_usb.
\* seen counts the polls that saw a volume since the last poll that saw none,
\* cycles the polls that saw one right after a poll that saw none (both to 2)
WatcherPoll(w) ==
    /\ watcher[w].pc = "poll"
    /\ IF attached # None
       THEN IF attached # watcher[w].previous_usb
            THEN /\ watcher' = [watcher EXCEPT ![w] =
                        [pc |-> "check", previous_usb |-> attached,
                         seen |-> Bump(@.seen),
                         cycles |-> IF @.previous_usb = None THEN Bump(@.cycles)
                                    ELSE @.cycles]]
                 /\ lecteur' = attached
            ELSE /\ watcher' = [watcher EXCEPT ![w].seen = Bump(@)]
                 /\ UNCHANGED lecteur
       ELSE /\ watcher' = [watcher EXCEPT ![w].previous_usb = None, ![w].seen = 0]
            /\ UNCHANGED lecteur
    /\ UNCHANGED <<envVars, fsVars, lockVars, pc, k, result, pullVars, usb_queue, puts,
                   usb_prompted, attached, copyVars, ej_pc>>

\* the request put on the queue before usb_prompted is looked at
WatcherCheck_PutFirst(w) ==
    /\ watcher[w].pc = "check"
    /\ usb_queue' = Append(usb_queue, [usb |-> lecteur, config |-> configs[w]])
    /\ puts' = puts + 1
    /\ watcher' = [watcher EXCEPT ![w].pc =
            IF usb_prompted.type # "set" THEN "dead" ELSE "add"]
    /\ UNCHANGED <<envVars, fsVars, lockVars, pc, k, result, pullVars,
                   usb_prompted, lecteur, attached, copyVars, ej_pc>>

\* `if current_usb not in usb_prompted:` with usb_prompted a bool raises
\* TypeError, which nothing in check_usb catches: the thread ends
WatcherCheck(w) ==
    /\ watcher[w].pc = "check"
    /\ watcher' = [watcher EXCEPT ![w].pc =
            IF usb_prompted.type # "set" THEN "dead"
            ELSE IF watcher[w].previous_usb \notin usb_prompted.elems THEN "put"
            ELSE "poll"]
    /\ UNCHANGED <<envVars, fsVars, lockVars, pc, k, result, pullVars, usb_queue, puts,
                   usb_prompted, lecteur, attached, copyVars, ej_pc>>

\* usb_queue.put((lecteur, config))
WatcherPut(w) ==
    /\ watcher[w].pc = "put"
    /\ usb_queue' = Append(usb_queue, [usb |-> lecteur, config |-> configs[w]])
    /\ puts' = puts + 1
    /\ watcher' = [watcher EXCEPT ![w].pc = "add"]
    /\ UNCHANGED <<envVars, fsVars, lockVars, pc, k, result, pullVars, usb_prompted,
                   lecteur, attached, copyVars, ej_pc>>

\* usb_prompted.add(current_usb), then time.sleep(10)
WatcherAdd(w) ==
    /\ watcher[w].pc = "add"
    /\ usb_prompted' = [usb_prompted EXCEPT !.elems = @ \cup {watcher[w].previous_usb}]
    /\ watcher' = [watcher EXCEPT ![w].pc = "poll"]
    /\ UNCHANGED <<envVars, fsVars, lockVars, pc, k, result, pullVars, usb_queue, puts,
                   lecteur, attached, copyVars, ej_pc>>

(***************************************************************************)
(* process_usb_queue and copy_to_usb, on the control thread                *)
(***************************************************************************)
\* process_usb_queue between two requests: usb_path and config are unbound
NoRequest == [usb |-> None, config |-> 0]

\* usb_path, config = usb_queue.get_nowait()
DrainGet ==
    /\ pc = "drain"
    /\ usb_queue # <<>>
    /\ usb_req' = Head(usb_queue)
    /\ usb_queue' = Tail(usb_queue)
    /\ pc' = "uq_prompt"
    /\ UNCHANGED <<k, result, pullVars, envVars, fsVars, lockVars, puts, watchVars,
                   usb_dest, cu_todo, cu_exc, ej_pc>>

\* prompt_user_for_backup(usb_path): the user's answer
UsbPrompt ==
    /\ pc = "uq_prompt"
    /\ \/ pc' = "cu_select" /\ UNCHANGED usb_req
       \/ pc' = "drain" /\ usb_req' = NoRequest
    /\ UNCHANGED <<k, result, pullVars, envVars, fsVars, lockVars, usb_queue, puts,
                   watchVars, usb_dest, cu_todo, cu_exc, ej_pc>>

\* target_folder = select_backup_folder(usb_path): a folder, or none and
\* copy_to_usb returns
CopySelect ==
    /\ pc = "cu_select"
    /\ \/ pc' = "cu_wait" /\ UNCHANGED usb_req
       \/ pc' = "drain" /\ usb_req' = NoRequest
    /\ UNCHANGED <<k, result, pullVars, envVars, fsVars, lockVars, usb_queue, puts,
                   watchVars, usb_dest, cu_todo, cu_exc, ej_pc>>

\* wait_for_no_active_transfer(): poll the flag under the lock, sleep 1 s
CopyWait ==
    /\ pc = "cu_wait"
    /\ lock_owner = "none"
    /\ pc' = IF active_transfer THEN "cu_wait" ELSE "cu_lock"
    /\ UNCHANGED <<k, result, pullVars, envVars, fsVars, lockVars, usbVars>>

\* with active_transfer_lock: active_transfer = True
CopyLock ==
    /\ pc = "cu_lock"
    /\ lock_owner = "none"
    /\ active_transfer' = TRUE
    /\ pc' = "cu_list"
    /\ UNCHANGED <<k, result, pullVars, envVars, fsVars, lock_owner, usbVars>>

\* os.listdir(backup_path), inside the try
CopyList ==
    /\ pc = "cu_list"
    /\ \/ /\ cu_todo' = ListDirPrimary(usb_req.config)
          /\ pc' = "cu_copy"
          /\ UNCHANGED cu_exc
       \/ /\ cu_exc' = TRUE
          /\ pc' = "cu_finally"
          /\ UNCHANGED cu_todo
    /\ UNCHANGED <<k, result, pullVars, envVars, fsVars, lockVars, usb_queue, puts,
                   watchVars, usb_req, usb_dest, ej_pc>>

\* one file of the loop: skipped when the destination has the name, else the
\* chunked copy or an exception, which is logged; the loop goes on
CopyFile ==
    /\ pc = "cu_copy"
    /\ IF cu_todo = {}
       THEN /\ pc' = "cu_finally"
            /\ UNCHANGED <<cu_todo, usb_dest>>
       ELSE /\ \E file_name \in cu_todo :
                  /\ cu_todo' = cu_todo \ {file_name}
                  /\ IF file_name \in Names(usb_dest)
                     THEN UNCHANGED usb_dest
                     ELSE \/ /\ file_name \in Names(primary[usb_req.config])
                             /\ usb_dest' = usb_dest \cup
                                   {[name |-> file_name,
                                     complete |-> PrimaryFile(usb_req.config, file_name).complete]}
                          \/ /\ file_name \in Names(primary[usb_req.config])
                             /\ usb_dest' = usb_dest \cup
                                   {[name |-> file_name, complete |-> FALSE]}
                          \/ UNCHANGED usb_dest
            /\ UNCHANGED pc
    /\ UNCHANGED <<k, result, pullVars, envVars, fsVars, lockVars, usb_queue, puts,
                   watchVars, usb_req, cu_exc, ej_pc>>

\* the flag reset after the loop instead of in a finally
CopyFinally_NoReset ==
    /\ pc = "cu_finally"
    /\ lock_owner = "none"
    /\ active_transfer' = IF cu_exc THEN active_transfer ELSE FALSE
    /\ pc' = IF cu_exc THEN "joining" ELSE "drain"
    /\ usb_req' = NoRequest
    /\ cu_todo' = {}
    /\ cu_exc' = FALSE
    /\ UNCHANGED <<k, result, pullVars, envVars, fsVars, lock_owner, usb_queue, puts,
                   watchVars, usb_dest, ej_pc>>

\* finally: with active_transfer_lock: active_transfer = False; copy_to_usb
\* returns to process_usb_queue, or the exception goes on out of the control
\* loop, whose finally joins the watcher threads
CopyFinally ==
    /\ pc = "cu_finally"
    /\ lock_owner = "none"
    /\ active_transfer' = FALSE
    /\ pc' = IF cu_exc THEN "joining" ELSE "drain"
    /\ usb_req' = NoRequest
    /\ cu_todo' = {}
    /\ cu_exc' = FALSE
    /\ UNCHANGED <<k, result, pullVars, envVars, fsVars, lock_owner, usb_queue, puts,
                   watchVars, usb_dest, ej_pc>>

\* KeyboardInterrupt during process_usb_queue: inside the try of copy_to_usb
\* it passes through the finally, elsewhere it leaves the control loop at once
InterruptCopy ==
    /\ pc \in {"uq_prompt", "cu_select", "cu_wait", "cu_lock", "cu_list", "cu_copy"}
    /\ IF pc \in {"cu_list", "cu_copy"}
       THEN /\ cu_exc' = TRUE
            /\ pc' = "cu_finally"
            /\ UNCHANGED <<usb_req, cu_todo>>
       ELSE /\ pc' = "joining"
            /\ usb_req' = NoRequest
            /\ UNCHANGED <<cu_todo, cu_exc>>
    /\ UNCHANGED <<k, result, pullVars, envVars, fsVars, lockVars, usb_queue, puts,
                   watchVars, usb_dest, ej_pc>>

(***************************************************************************)
(* safe_eject_usb, called from a thread of its own                         *)
(***************************************************************************)
\* the flag read without taking active_transfer_lock
EjectCall_NoLock ==
    /\ ej_pc # "prompt"
    /\ lecteur # None
    /\ ej_pc' = IF active_transfer THEN "rejected" ELSE "prompt"
    /\ UNCHANGED <<k, result, pullVars, envVars, fsVars, lockVars, pc, usb_queue,
                   puts, watchVars, copyVars>>

\* `if lecteur:` and `with active_transfer_lock: if active_transfer:` - the
\* warning, or the lock stays held over the prompt
EjectCall ==
    /\ ej_pc # "prompt"
    /\ lecteur # None
    /\ lock_owner = "none"
    /\ IF active_transfer
       THEN /\ ej_pc' = "rejected"
            /\ UNCHANGED lock_owner
       ELSE /\ ej_pc' = "prompt"
            /\ lock_owner' = "eject"
    /\ UNCHANGED <<k, result, pullVars, envVars, fsVars, active_transfer, pc, usb_queue,
                   puts, watchVars, copyVars>>

\* the answer to input(); on "yes" the eject command, lecteur = None and
\* usb_prompted.clear(), which raises AttributeError on a bool (caught and
\* logged); the with block then releases the lock
EjectAnswer ==
    /\ ej_pc = "prompt"
    /\ lock_owner' = "none"
    /\ \/ /\ ej_pc' = "declined"
          /\ UNCHANGED <<lecteur, usb_prompted>>
       \/ /\ ej_pc' = "failed"
          /\ UNCHANGED <<lecteur, usb_prompted>>
       \/ /\ ej_pc' = IF usb_prompted.type = "set" THEN "ejected" ELSE "failed"
          /\ lecteur' = None
          /\ usb_prompted' = [usb_prompted EXCEPT !.elems = {}]
    /\ UNCHANGED <<k, result, pullVars, envVars, fsVars, active_transfer, pc, usb_queue,
                   puts, attached, watcher, copyVars>>

\* a caller outside the watcher threads puts a request on usb_queue
ExternalPut ==
    /\ puts < MaxRequests
    /\ \E v \in Volumes, n \in ConfigIndexes :
          usb_queue' = Append(usb_queue, [usb |-> v, config |-> configs[n]])
    /\ puts' = puts + 1
    /\ UNCHANGED <<k, result, pullVars, envVars, fsVars, lockVars, pc, watchVars,
                   copyVars, ej_pc>>

(***************************************************************************)
(* The program                                                             *)
(***************************************************************************)
\* usb_prompted = False
UsbPromptedInit == [type |-> "bool", elems |-> {}]

InitWith(cfgs, dirs) ==
    /\ configs \in cfgs
    /\ \E dir \in dirs : remote = [s \in AllServers |-> IF s = 1 THEN dir ELSE DirSmall]
    /\ primary = [s \in AllServers |-> {}]
    /\ staging = [s \in AllServers |-> [exists |-> FALSE, files |-> {}]]
    /\ secondary = [s \in AllServers |-> [j \in DOMAIN SecondaryPaths(s) |-> {}]]
    /\ created = [s \in AllServers |-> FALSE]
    /\ active_transfer = FALSE
    /\ lock_owner = "none"
    /\ pc = "startup"
    /\ k = 1
    /\ srv = 0
    /\ ret = "none"
    /\ attempt = 0
    /\ conn_err = "none"
    /\ new_files = <<>>
    /\ idx = 0
    /\ primary_files = {}
    /\ sec = 0
    /\ files_to_copy = {}
    /\ result = "none"
    /\ failed = {}
    /\ skipped = {}
    /\ sync_error = "none"
    /\ usb_queue = <<>>
    /\ usb_prompted = UsbPromptedInit
    /\ lecteur = None
    /\ attached = None
    /\ watcher = [w \in AllServers |->
                    [pc |-> "off", previous_usb |-> None, seen |-> 0, cycles |-> 0]]
    /\ usb_req = NoRequest
    /\ usb_dest = {}
    /\ cu_todo = {}
    /\ cu_exc = FALSE
    /\ ej_pc = "idle"
    /\ puts = 0

Init == InitWith({<<1>>}, RemoteDirs)

PullNext ==
    \/ Connect \/ PullOpen \/ PullList \/ PullMkTemp \/ PullLock
    \/ FileBegin \/ FileGetfo \/ FileRename \/ FileUtime
    \/ PullCleanup \/ PullSync \/ SyncDir \/ SyncCopy \/ PullFinally

WatchNext == \E w \in AllServers : WatcherPoll(w) \/ WatcherCheck(w)

Next ==
    \/ Startup \/ RunPending \/ DrainEmpty \/ Interrupt \/ Join
    \/ PullNext
    \/ Attach \/ Detach \/ WatchNext

Spec == Init /\ [][Next]_vars

\* the steps of the control (main) thread, and the program with its threads
\* scheduled fairly: the control thread and every watcher thread go on
\* running; interrupts and what the user does with volumes are not forced
ControlNext == Startup \/ RunPending \/ DrainEmpty \/ PullNext \/ Join

SpecFair ==
    /\ InitWith({<<1>>}, {DirSmall})
    /\ [][Next]_vars
    /\ WF_vars(ControlNext)
    /\ WF_vars(WatchNext)

\* the program with two servers configured
InitServers == InitWith({<<1, 2>>}, {DirSmall})

SpecServers == InitServers /\ [][Next]_vars

\* the program with its public functions also used from outside: requests
\* put on usb_queue, and safe_eject_usb called from another thread
InitCalls == InitWith({<<1>>}, {DirSmall})

CopyNext ==
    \/ DrainGet \/ UsbPrompt \/ CopySelect \/ CopyWait \/ CopyLock \/ CopyList
    \/ CopyFile \/ CopyFinally \/ InterruptCopy

NextCalls == Next \/ CopyNext \/ ExternalPut \/ EjectCall \/ EjectAnswer

SpecCalls == InitCalls /\ [][NextCalls]_vars


(***************************************************************************)
(* Properties                                                              *)
(***************************************************************************)
\* positions at which a pull or a removable-media copy has set the flag and
\* has not yet left its finally
Holding == {"pb_file", "pb_getfo", "pb_rename", "pb_utime", "pb_cleanup", "pb_sync",
            "sy_dir", "sy_copy", "cu_list", "cu_copy"}

InFinally == {"pb_finally", "cu_finally"}

\* the step of a transfer that sets active_transfer to True
SetStep ==
    \/ pc = "pb_lock" /\ pc' = "pb_file"
    \/ pc = "cu_lock" /\ pc' = "cu_list"

\* C1: mutual exclusion of transfers. Whenever a pull or a removable-media
\* copy sets active_transfer to True the flag was False, so no transfer that
\* set it earlier still holds it; and the flag is True only while the one
\* transfer running on the control thread is between its set and its reset.
C1_MutualExclusion ==
    /\ [][SetStep => ~active_transfer]_vars
    /\ [](active_transfer => pc \in Holding \cup InFinally)

\* a removable-media copy holds the flag after a pull held and released it
C1_Witness ==
    /\ pc = "cu_copy"
    /\ active_transfer
    /\ result = "success"

\* C2: no partial file in the primary root. Every file of every primary root
\* is complete, and a name enters a primary root only by the rename step of
\* the pull of that server, out of a completely downloaded staging file.
C2_NoPartialInPrimary ==
    /\ [](\A s \in AllServers : \A f \in primary[s] : f.complete)
    /\ [][\A s \in AllServers : \A f \in primary'[s] :
             f.name \notin Names(primary[s]) =>
                /\ pc = "pb_rename"
                /\ s = srv
                /\ [name |-> f.name, complete |-> TRUE] \in staging[s].files
                /\ f.name \notin Names(staging'[s].files)]_vars

\* a download failed midway and a pull was interrupted: the partial bytes
\* are in staging, the primary root holds a file
C2_Witness ==
    /\ result = "interrupted"
    /\ pc = "run_pending"
    /\ primary[1] # {}
    /\ \E f \in staging[1].files : ~f.complete

\* C3: lock release on every exit. The step by which a pull or a
\* removable-media copy that has set active_transfer leaves (returns, or
\* lets an exception go on) ends with active_transfer False, and the flag is
\* False whenever the control thread is outside these operations.
C3_ReleasedOnExit ==
    /\ [][(pc \in Holding \cup InFinally /\ pc' \notin Holding \cup InFinally)
             => ~active_transfer']_vars
    /\ [](pc \in {"startup", "run_pending", "drain", "joining", "exited"}
             => ~active_transfer)

\* a copy ended by an exception and, before it, a pull ended by an interrupt
\* after it had set the flag
C3_Witness ==
    /\ pc = "joining"
    /\ result = "interrupted"
    /\ usb_dest # {}
    /\ primary[1] # {}
    /\ ~active_transfer

\* C4: eject safety. safe_eject_usb is at its prompt, and ejects, only with
\* active_transfer False and the lock held, so the flag stays False up to
\* the end of the eject; called with the flag True it reports the rejection
\* and changes neither lecteur nor usb_prompted.
C4_EjectSafety ==
    /\ [](ej_pc = "prompt" => ~active_transfer /\ lock_owner = "eject")
    /\ [][(ej_pc # "prompt" /\ ej_pc' # ej_pc /\ active_transfer)
             => ej_pc' = "rejected" /\ UNCHANGED <<lecteur, usb_prompted>>]_vars
    /\ [][((lecteur' # lecteur /\ lecteur' = None) \/ usb_prompted' # usb_prompted)
             => ~active_transfer /\ ~active_transfer']_vars

\* the eject was called during a transfer and rejected
C4_Witness ==
    /\ ej_pc = "rejected"
    /\ active_transfer
    /\ lecteur # None

\* every entry of the remote directory has its sanitized name in the primary root
AllListedPresent(s) ==
    \A n \in DOMAIN remote[s] :
        sanitize_filename(remote[s][n].name) \in Names(primary[s])

\* C5: no re-download. A download starts only for a file whose sanitized
\* name is not in the primary root, and a pull that finds the sanitized name
\* of every listed file in the primary root goes no further than the
\* listing: it transfers nothing.
C5_NoRedownload ==
    /\ [][(pc = "pb_file" /\ pc' = "pb_getfo")
             => sanitize_filename(new_files[idx].file) \notin Names(primary[srv])]_vars
    /\ [][(pc = "pb_list" /\ AllListedPresent(srv)) => pc' # "pb_mktemp"]_vars

\* a second pull found nothing new after a pull that downloaded the files
C5_Witness ==
    /\ result = "none_new"
    /\ pc = "run_pending"
    /\ AllListedPresent(1)
    /\ Cardinality(primary[1]) = 2

\* C6: mirror convergence. When a pull is about to return True, every name
\* in the primary root is in every secondary root of that server.
C6_MirrorConvergence ==
    (pc = "pb_finally" /\ result = "success") =>
        \A j \in DOMAIN SecondaryPaths(srv) :
            ListDirPrimary(srv) \subseteq Names(secondary[srv][j])

\* a successful pull with two files in the primary root
C6_Witness ==
    /\ pc = "pb_finally"
    /\ result = "success"
    /\ Cardinality(primary[srv]) = 2
    /\ Len(new_files) = 1

\* C7: partial success. A failure on one new file does not end the batch:
\* the pull reaches its cleanup only after the whole of new_files, and a pull
\* with failed files that is neither interrupted nor stopped by an error of
\* the mirror sync returns True with every other new file in the primary root.
C7_PartialSuccess ==
    /\ pc \in {"pb_cleanup", "pb_sync", "sy_dir", "sy_copy"} => idx = Len(new_files) + 1
    /\ (pc = "pb_finally" /\ failed # {} /\ sync_error = "none" /\ result # "interrupted")
          => /\ result = "success"
             /\ idx = Len(new_files) + 1
             /\ \A n \in DOMAIN new_files :
                   \/ n \in failed \cup skipped
                   \/ sanitize_filename(new_files[n].file) \in Names(primary[srv])

\* the first of three new files failed, a later one was downloaded, and the
\* pull returns True
C7_Witness ==
    /\ pc = "pb_finally"
    /\ result = "success"
    /\ failed = {1}
    /\ Len(new_files) = 3
    /\ Names(primary[srv]) = {<<"b", "_">>}

\* C8: mirror failure isolation. After a failed copy of one file the mirror
\* sync goes on: unless interrupted, it ends only after the last secondary root.
C8_MirrorIsolation ==
    (pc = "pb_finally" /\ sync_error = "copy" /\ result # "interrupted")
        => sec > Len(SecondaryPaths(srv))

\* requests for volume v put on usb_queue (nothing takes them off it in Spec)
Enqueued(v) == Cardinality({n \in DOMAIN usb_queue : usb_queue[n].usb = v})

\* a watcher that is between two polls, or has ended
Settled(w) == watcher[w].pc \in {"poll", "dead"}

\* C9: removable-media dedup. A watcher that has seen a volume on one or more
\* polls with no poll without a volume in between has enqueued exactly one
\* TransferRequest for it.
C9_ExactlyOnePerAttach ==
    \A w \in AllServers :
        (Settled(w) /\ watcher[w].seen >= 1) => Enqueued(watcher[w].previous_usb) = 1

\* C10: re-attach is a new event. Each attach a watcher has seen (a poll that
\* sees the volume after a poll that saw none) has enqueued a TransferRequest:
\* one for the first attach, a second for the re-attach.
C10_ReattachEnqueues ==
    \A w \in AllServers :
        (Settled(w) /\ watcher[w].cycles >= 1)
            => Enqueued(watcher[w].previous_usb) >= watcher[w].cycles

\* a step of a pull that ends it with a session-level error: an exception of
\* open_sftp, of create_backup_directories, of the listing, of os.listdir or
\* of os.makedirs, or the ValueError of int(parts[-2])
SessionError ==
    /\ pc \in {"pb_open", "pb_list", "pb_mktemp"}
    /\ result' \in {"raised", "value_error"}

\* C11: error isolation between servers. A session-level error in the pull of
\* one server ends that pull only: control is back in the caller, the startup
\* loop (which goes on with the next server) or the control loop.
C11_ErrorIsolation == [][SessionError => pc' \in {"startup", "run_pending"}]_vars

\* a step of connect_ssh on the control thread
ConnectStep ==
    /\ pc = "pb_connect"
    /\ <<pc, attempt, result>>' # <<pc, attempt, result>>

\* C12: session retry policy. connect_ssh makes at most `retries` (3)
\* attempts: a successful attempt ends it, no attempt follows one that
\* failed with an authentication error, any other failure is followed by
\* the next attempt, and the third failure is permanent; a pull whose
\* connect failed returns with the flag and the backup store as they were.
C12_RetryPolicy ==
    /\ [](attempt <= retries - 1 /\ conn_err # "auth")
    /\ [][ConnectStep =>
            \/ pc' = "pb_open" /\ attempt' = attempt
            \/ pc' = "pb_connect" /\ attempt' = attempt + 1 /\ conn_err' = "error"
            \/ result' = "auth_failed"
            \/ result' = "connect_failed" /\ attempt = retries - 1
            \/ result' = "keyboard_interrupt"]_vars
    /\ [][(ConnectStep /\ result' \in {"auth_failed", "connect_failed"})
             => /\ pc' \in {"startup", "run_pending"}
                /\ ~active_transfer'
                /\ UNCHANGED fsVars]_vars

\* the startup pull of the server failed to connect and the control loop runs
\* with nothing created in the backup store
C12_Witness ==
    /\ pc = "run_pending"
    /\ result = "connect_failed"
    /\ ~created[1]
    /\ ~active_transfer

\* the sanitizer as the property describes it: every character outside
\* [A-Za-z0-9 ._-] becomes '_'
AsciiAlnum == AlnumChars \ {"é"}

ClaimSanitize(filename) ==
    [n \in DOMAIN filename |->
        IF filename[n] \in AsciiAlnum \cup KeptChars THEN filename[n] ELSE "_"]

\* C13: new-file set. A pull that gets through its listing (no exception of
\* the session, no interrupt) decides to download exactly the local names
\* {sanitize(r.filename) : r in R} \ L, R being the remote entries and L the
\* names in the primary root.
C13_NewFileSet ==
    [][(pc = "pb_list" /\ pc' # pc /\ result' \notin {"raised", "keyboard_interrupt"}) =>
        LET expected == {ClaimSanitize(remote[srv][n].name) : n \in DOMAIN remote[srv]}
                            \ ListDirPrimary(srv)
        IN  IF expected = {} THEN result' = "none_new"
            ELSE /\ pc' = "pb_mktemp"
                 /\ {sanitize_filename(new_files'[n].file) : n \in DOMAIN new_files'}
                        = expected]_vars

\* the step by which perform_backup returns or lets an exception go on
PullEnds ==
    /\ pc \in PullOuter \cup {"pb_finally"}
    /\ pc' \in {"startup", "run_pending", "joining", "exited"}

\* the primary root scenario A ends with: a.txt and b_log.txt, with the
\* modification times of the listing
ScenarioAFiles ==
    { [name |-> <<"a", ".", "t", "x", "t">>, complete |-> TRUE, mtime |-> 2],
      [name |-> <<"b", "_", "l", "o", "g", ".", "t", "x", "t">>, complete |-> TRUE,
       mtime |-> 1] }

\* C14: end-to-end scenario A. The first pull of the remote directory
\* [a.txt, "b log.txt"] into an empty primary root, when nothing outside the
\* program fails (no connection failure, no exception of the session or of a
\* transfer, no interrupt), ends with exactly a.txt and b_log.txt in the
\* primary root, with the modification times of the listing.
C14_ScenarioA ==
    [][(/\ PullEnds
        /\ ret = "startup"
        /\ remote[srv] = DirBlank
        /\ failed = {}
        /\ result' \in {"value_error", "none_new", "success"})
          => primary'[srv] = ScenarioAFiles]_vars

\* C15: lock before filesystem. Every step that changes the backup roots,
\* the staging directory or the destination folder on the volume is made
\* with active_transfer True.
C15_LockBeforeFilesystem ==
    [][<<fsVars, usb_dest>>' # <<fsVars, usb_dest>> => active_transfer]_vars

\* C16: interrupt stops the loop. A scheduled pull that was interrupted does
\* not return into the control loop: after it the loop has ended and main
\* joins the watcher threads.
C16_InterruptStopsLoop ==
    [][(pc = "pb_finally" /\ result = "interrupted" /\ ret = "sched")
          => pc' \in {"pb_finally", "joining"}]_vars

\* C17: clean shutdown terminates. Once the control loop has ended and main
\* is joining the watcher threads, the joins complete and the process exits.
C17_ShutdownTerminates == (pc = "joining") ~> (pc = "exited")

\* every name in the primary root of server s is in each of its secondary roots
Mirrored(s) ==
    \A j \in DOMAIN SecondaryPaths(s) : Names(primary[s]) \subseteq Names(secondary[s][j])

\* C19: eventual consistency of mirrors. If pulls go on running and from
\* some point on no pull fails or is interrupted, then from some point on
\* every name in the primary root is in every secondary root, also when the
\* remote listing has nothing new.
C19_EventualMirror ==
    ([]<>(pc = "pb_list") /\ <>[](result \in {"none", "none_new", "success"}))
        => <>[]Mirrored(1)

C20_WaitNeverHangs ==
    /\ [](pc = "cu_wait" => ~active_transfer)
    /\ []((pc = "cu_wait" /\ lock_owner = "none") => ENABLED <<CopyWait>>_vars)
    /\ [][(pc = "cu_wait" /\ pc' # pc) => pc' \in {"cu_lock", "joining"}]_vars

\* a copy is waiting after a pull that was interrupted past a download, with
\* a watcher thread that has ended
C20_Witness ==
    /\ pc = "cu_wait"
    /\ result = "interrupted"
    /\ watcher[1].pc = "dead"
    /\ primary[1] # {}

\* C21: a name in a mirror means a complete copy. Every file in a secondary
\* root and every file in the destination folder on the volume is a complete
\* copy: a copy that failed midway has left no file under its name.
C21_MirrorNameMeansComplete ==
    /\ \A s \in AllServers : \A j \in DOMAIN SecondaryPaths(s) :
          \A f \in secondary[s][j] : f.complete
    /\ \A f \in usb_dest : f.complete

====
